---- MODULE Spec2Model ----
(***************************************************************************)
(* journey-cli: the publish engine of package journey.                     *)
(*                                                                         *)
(* Journey.Publish checks that the version is free (ValidateVersionNotUsed,*)
(* one HeadObject on "{name}/{version}/journey.json"), builds the public   *)
(* URL manifest, starts one goroutine per upload (every asset, the asset   *)
(* manifest, journey.json, journey-urls.json) and waits on a WaitGroup.    *)
(*                                                                         *)
(* Strings are TLA+ strings; the bucket is a function from keys to objects.*)
(* A goroutine takes one step up to its Upload call (the path test,        *)
(* filepath.Abs and os.Open touch nothing another goroutine reads) and one *)
(* step for the Upload call with the return that follows it, where the     *)
(* deferred f.Close() and wg.Done() run.                                   *)
(*                                                                         *)
(* The repository holds four variants of the program.  Spec is the newest  *)
(* (package journey of latest.go, lines 238-429); SpecVariants runs each   *)
(* of the four from the start of its main.                                 *)
(***************************************************************************)
EXTENDS Integers, Sequences, FiniteSets, TLC

VARIABLES
    j,          \* the Journey descriptor Publish runs on
    assets,     \* the asset manifest: logical name -> relative path
    objects,    \* the S3 bucket j.Bucket: key -> object
    pc,         \* where Publish is
    ok,         \* first result of ValidateVersionNotUsed, as Publish reads it
    err,        \* second result of ValidateVersionNotUsed
    head,       \* what HeadObject answered ("none": it was not called)
    probed,     \* the keys HeadObject was called on
    version,    \* the jr.Version built by BuildJourneyPublicUrls
    wg,         \* the WaitGroup counter
    tasks,      \* the upload goroutines, by task name
    uploads,    \* the UploadInputs handed to uploader.Upload, with their task
    cwdOK,      \* whether os.Getwd succeeds in this process
    variant,    \* which of the repository's variants of the program runs
    prior,      \* what an earlier run of the same publish left behind
    peer,       \* a second Publish of the same descriptor, run concurrently
    ret         \* what Publish returned ("none": it has not returned)

vars == <<j, assets, objects, pc, ok, err, head, probed, version, wg, tasks,
          uploads, cwdOK, variant, prior, peer, ret>>

----------------------------------------------------------------------------
(* Bounds *)

\* the largest asset manifest Publish is run on
MaxAssets == 2

----------------------------------------------------------------------------
(* Strings and paths *)

Char(s, i) == SubSeq(s, i, i)

\* the loop of filepath.Ext, at index i (1-based) of path
RECURSIVE ExtFrom(_, _)
ExtFrom(path, i) ==
    IF i < 1 \/ Char(path, i) = "/" THEN ""
    ELSE IF Char(path, i) = "." THEN SubSeq(path, i, Len(path))
    ELSE ExtFrom(path, i - 1)

\* the suffix of path from its first dot
Ext_FirstDot(path) ==
    LET dots == { i \in 1..Len(path) : Char(path, i) = "." }
    IN  IF dots = {} THEN ""
        ELSE SubSeq(path, CHOOSE i \in dots : \A k \in dots : i <= k, Len(path))

\* filepath.Ext: the suffix of path from the last dot of its last element
Ext(path) == ExtFrom(path, Len(path))

\* filepath.IsAbs
IsAbs(path) == Len(path) > 0 /\ Char(path, 1) = "/"

\* the working directory of the process
Cwd == "/work"

\* filepath.Abs when it succeeds: an absolute path stays, a relative one is
\* joined to the working directory
Abs(path) == IF IsAbs(path) THEN path ELSE Cwd \o "/" \o path

\* mime.TypeByExtension, the part of its table the published files use
TypeByExtension(ext) ==
    CASE ext = ".js"   -> "application/javascript"
      [] ext = ".css"  -> "text/css; charset=utf-8"
      [] ext = ".json" -> "application/json"
      [] OTHER         -> ""

getContentType(path) ==
    LET mimeType == TypeByExtension(Ext(path))
    IN  IF Len(mimeType) <= 0 THEN "application/octet-stream" ELSE mimeType

----------------------------------------------------------------------------
(* The variants of the program *)

\* src/main.go: no version guard, a manifest of four fixed fields
Main1 == "main-1"

\* part_000, lines 1-197: the guard, then the manifest loaded by Publish
Main2 == "main-2"

\* latest.go, lines 25-236, under the main of part_000, lines 199-274
Journey1 == "journey-1"

\* the newest variant: latest.go, lines 238-429, under the same main
Newest == "journey-2"

Variants == {Main1, Main2, Journey1, Newest}

\* the variants whose Publish builds and uploads journey-urls.json
WithUrls == {Journey1, Newest}

----------------------------------------------------------------------------
(* The Journey descriptor *)

GetJourneyURLPath(jj) == jj.Name \o "/" \o jj.Version \o "/journey-urls.json"

GetAssetPath(jj, path) == jj.Build \o path

GetAssetKey(jj, path) == jj.Name \o "/" \o jj.Version \o "/" \o path

\* validate.Struct: every field of Journey is `validate:"required"`
Validate(jj) ==
    /\ jj.Name # ""     /\ jj.Version # ""  /\ jj.RootID # ""
    /\ jj.Build # ""    /\ jj.Manifest # "" /\ jj.Bucket # ""
    /\ jj.JourneyPath # "" /\ jj.CDNDomain # ""

\* validate.Struct on the Journey of package main, which has six fields
ValidateMain(jj) ==
    /\ jj.Name # ""     /\ jj.Version # ""  /\ jj.RootID # ""
    /\ jj.Build # ""    /\ jj.Manifest # "" /\ jj.Bucket # ""

----------------------------------------------------------------------------
(* The object store *)

\* s3.HeadObject on `key`: nil error when the object is there, a NotFound
\* error when it is not, and any call can fail for another reason
HeadObject(bucket, key) ==
    (IF key \in DOMAIN bucket THEN {"present"} ELSE {"NotFound"})
        \cup {"RequestFailure"}

\* an object as Upload stores it
FileObject(ctype, file) ==
    [ContentType |-> ctype, Kind |-> "file", File |-> file,
     Data |-> [Css |-> <<>>, Js |-> <<>>]]

DataObject(ctype, data) ==
    [ContentType |-> ctype, Kind |-> "data", File |-> "", Data |-> data]

----------------------------------------------------------------------------
(* ValidateVersionNotUsed *)

\* the key whose presence means the version is published
SentinelKey(jj) == jj.Name \o "/" \o jj.Version \o "/journey.json"

\* ValidateVersionNotUsed with the conflict answered like a missing object
ValidateVersionNotUsed_NoConflict(jj, bucket) ==
    IF jj.Version = "latest"
    THEN { [ok |-> TRUE, err |-> "ReservedVersion", head |-> "none", probed |-> {}] }
    ELSE { [ok |-> TRUE, err |-> h, head |-> h, probed |-> {SentinelKey(jj)}]
           : h \in HeadObject(bucket, SentinelKey(jj)) }

\* The results ValidateVersionNotUsed can return on descriptor jj against
\* `bucket`: (ok, err), with the HeadObject answer and the keys it probed.
ValidateVersionNotUsed(jj, bucket) ==
    IF jj.Version = "latest"
    THEN { [ok |-> TRUE, err |-> "ReservedVersion", head |-> "none", probed |-> {}] }
    ELSE { IF h = "present"
           THEN [ok |-> FALSE, err |-> "VersionConflict", head |-> h,
                 probed |-> {SentinelKey(jj)}]
           ELSE [ok |-> TRUE, err |-> h, head |-> h,
                 probed |-> {SentinelKey(jj)}]
           : h \in HeadObject(bucket, SentinelKey(jj)) }

\* ValidateVersionNotUsed of package main: no reserved version
ValidateVersionNotUsedMain(jj, bucket) ==
    { IF h = "present"
      THEN [ok |-> FALSE, err |-> "VersionConflict", head |-> h,
            probed |-> {SentinelKey(jj)}]
      ELSE [ok |-> TRUE, err |-> h, head |-> h,
            probed |-> {SentinelKey(jj)}]
      : h \in HeadObject(bucket, SentinelKey(jj)) }

----------------------------------------------------------------------------
(* BuildJourneyPublicUrls *)

\* the orders in which `range assets` can visit the manifest
Orders(as) ==
    { o \in [1..Cardinality(DOMAIN as) -> DOMAIN as] :
        \A a, b \in DOMAIN o : a # b => o[a] # o[b] }

\* the URL without the CDN domain
PublicUrl_NoDomain(jj, v) == GetAssetKey(jj, v)

PublicUrl(jj, v) == jj.CDNDomain \o GetAssetKey(jj, v)

\* a loop that returns at the first file it does not support
BuildJourneyPublicUrls_StopAtUnsupported(jj, as, order) ==
    LET vals    == [i \in 1..Len(order) |-> as[order[i]]]
        bad     == { i \in 1..Len(vals) : Ext(vals[i]) \notin {".css", ".js"} }
        seen    == IF bad = {} THEN vals
                   ELSE SubSeq(vals, 1, (CHOOSE i \in bad : \A k \in bad : i <= k) - 1)
        cssVals == SelectSeq(seen, LAMBDA v : Ext(v) = ".css")
        jsVals  == SelectSeq(seen, LAMBDA v : Ext(v) = ".js")
    IN  [Css |-> [i \in 1..Len(cssVals) |-> [Url |-> PublicUrl(jj, cssVals[i])]],
         Js  |-> [i \in 1..Len(jsVals)  |->
                    [Url |-> PublicUrl(jj, jsVals[i]), RootID |-> jj.RootID]]]

\* the jr.Version built when the loop visits the manifest in `order`
BuildJourneyPublicUrls(jj, as, order) ==
    LET vals    == [i \in 1..Len(order) |-> as[order[i]]]
        cssVals == SelectSeq(vals, LAMBDA v : Ext(v) = ".css")
        jsVals  == SelectSeq(vals, LAMBDA v : Ext(v) = ".js")
    IN  [Css |-> [i \in 1..Len(cssVals) |-> [Url |-> PublicUrl(jj, cssVals[i])]],
         Js  |-> [i \in 1..Len(jsVals)  |->
                    [Url |-> PublicUrl(jj, jsVals[i]), RootID |-> jj.RootID]]]

----------------------------------------------------------------------------
(* Upload tasks *)

AssetTask(name) == "asset:" \o name

AssetTasks == { AssetTask(k) : k \in DOMAIN assets }

FixedTasks == {"manifest", "journey", "urls"}

\* the goroutines Publish starts in the variant that runs
TaskIds ==
    AssetTasks \cup (IF variant \in WithUrls THEN FixedTasks ELSE FixedTasks \ {"urls"})

\* a goroutine that has not been started
Idle == [pc |-> "idle", path |-> "", key |-> "", outcome |-> "none", fopen |-> FALSE]

\* `go uploadToS3(bucket, path, key, uploader, &wg)`
Started(path, key) ==
    [pc |-> "start", path |-> path, key |-> key, outcome |-> "none", fopen |-> FALSE]

Launched == { t \in TaskIds : tasks[t].pc # "idle" }

Completed == { t \in TaskIds : tasks[t].pc = "done" }

\* the count of the variant that starts two fixed uploads
WaitCount_Two(as) == Cardinality(DOMAIN as) + 2

\* the count Publish adds to the WaitGroup
WaitCount(as) == Cardinality(DOMAIN as) + 3

\* every variant adding the count of the newest one
AddCount_AlwaysThree(v, as) == Cardinality(DOMAIN as) + 3

\* the count the Publish of variant v adds to the WaitGroup
AddCount(v, as) ==
    CASE v = Main1 -> 6
      [] v = Main2 -> Cardinality(DOMAIN as) + 2
      [] OTHER     -> WaitCount(as)

\* the fields of AssetManifest, in the order Publish of src/main.go starts
\* their uploads
StructFields == <<"main.css", "main.css.map", "main.js", "main.js.map">>

----------------------------------------------------------------------------
(* Inputs *)

Demo ==
    [Name |-> "demo", Version |-> "1.0.0", RootID |-> "app-root",
     Build |-> "build", Manifest |-> "build/asset-manifest.json",
     Bucket |-> "bucket", JourneyPath |-> "journey.json",
     CDNDomain |-> "https://cdn.example.com/"]

\* the descriptors Publish is run on: a valid one, one with the reserved
\* version, and one whose Manifest field is empty
Journeys ==
    { Demo, [Demo EXCEPT !.Version = "latest"], [Demo EXCEPT !.Manifest = ""] }

ManifestPool ==
    { <<>>,
      ("main.js" :> "/main.abc123.js"),
      ("main.js" :> "/main.abc123.js") @@ ("main.css" :> "/main.abc123.css"),
      ("main.js" :> "/main.abc123.js") @@ ("main.css" :> "/main.abc123.css")
          @@ ("favicon.ico" :> "/favicon.ico") }

Manifests == { m \in ManifestPool : Cardinality(DOMAIN m) <= MaxAssets }

\* the bucket before the run: empty, or, for the valid descriptor, holding
\* the journey.json of an earlier publish of the same version
Buckets(jj) ==
    { <<>> } \cup
    IF jj = Demo
    THEN { (SentinelKey(jj) :> FileObject("application/json", "/work/journey.json")) }
    ELSE {}

NoVersion == [Css |-> <<>>, Js |-> <<>>]

\* no earlier run
NoPrior == [ran |-> FALSE, wrote |-> {}, failed |-> {}]

\* no concurrent run
NoPeer == [pc |-> "off", ok |-> FALSE, done |-> {}, wrote |-> {}]

Init ==
    /\ variant = Newest
    /\ j \in Journeys
    /\ assets \in Manifests
    /\ objects \in Buckets(j)
    /\ pc = "validate"
    /\ ok = FALSE
    /\ err = "nil"
    /\ head = "none"
    /\ probed = {}
    /\ version = NoVersion
    /\ wg = 0
    /\ tasks = [t \in TaskIds |-> Idle]
    /\ uploads = {}
    /\ cwdOK \in BOOLEAN
    /\ prior = NoPrior
    /\ peer = NoPeer
    /\ ret = "none"

----------------------------------------------------------------------------
(* Journey.Publish *)

\* `ok, err := j.ValidateVersionNotUsed(sess)`
PublishValidate ==
    /\ pc = "validate"
    /\ \E r \in (IF variant = Main2 THEN ValidateVersionNotUsedMain(j, objects)
                 ELSE ValidateVersionNotUsed(j, objects)) :
         /\ ok' = r.ok
         /\ err' = r.err
         /\ head' = r.head
         /\ probed' = probed \cup r.probed
    /\ pc' = "checked"
    /\ UNCHANGED <<j, assets, objects, version, wg, tasks, uploads, cwdOK, variant, prior, peer, ret>>

\* a Publish that starts the uploads without building the URL manifest
PublishCheck_SkipBuild ==
    /\ pc = "checked"
    /\ IF ~ok
       THEN pc' = "returned" /\ ret' = err
       ELSE pc' = "add" /\ ret' = ret
    /\ UNCHANGED <<j, assets, objects, ok, err, head, probed, version, wg, tasks,
                   uploads, cwdOK, variant, prior, peer>>

\* `if ...; !ok { return err }`
PublishCheck ==
    /\ pc = "checked"
    /\ IF ~ok
       THEN pc' = "returned" /\ ret' = err
       ELSE pc' = (IF variant = Main2 THEN "loadAssets" ELSE "build") /\ ret' = ret
    /\ UNCHANGED <<j, assets, objects, ok, err, head, probed, version, wg, tasks,
                   uploads, cwdOK, variant, prior, peer>>

\* `version := j.BuildJourneyPublicUrls(assets)`
PublishBuild ==
    /\ pc = "build"
    /\ \E o \in Orders(assets) : version' = BuildJourneyPublicUrls(j, assets, o)
    /\ pc' = "add"
    /\ UNCHANGED <<j, assets, objects, ok, err, head, probed, wg, tasks, uploads, cwdOK, variant, prior, peer, ret>>

\* `wg.Add(len(assets) + 3)`
PublishAdd ==
    /\ pc = "add"
    /\ wg' = wg + AddCount(variant, assets)
    /\ pc' = "assets"
    /\ UNCHANGED <<j, assets, objects, ok, err, head, probed, version, tasks, uploads, cwdOK, variant, prior, peer, ret>>

\* a loop that keys each upload by the manifest's logical name
PublishLaunchAsset_KeyByName ==
    /\ pc = "assets"
    /\ \E k \in DOMAIN assets :
         /\ tasks[AssetTask(k)].pc = "idle"
         /\ variant = Main1 =>
              \E i \in DOMAIN StructFields :
                 /\ StructFields[i] = k
                 /\ \A h \in 1..(i - 1) : tasks[AssetTask(StructFields[h])].pc # "idle"
         /\ tasks' = [tasks EXCEPT ![AssetTask(k)] =
                        Started(GetAssetPath(j, assets[k]), GetAssetKey(j, k))]
    /\ UNCHANGED <<j, assets, objects, pc, ok, err, head, probed, version, wg, uploads, cwdOK, variant, prior, peer, ret>>

\* one turn of `for _, v := range assets { go uploadToS3(...) }`; in
\* src/main.go, the next of the four `go uploadToS3(...)` on the fields
PublishLaunchAsset ==
    /\ pc = "assets"
    /\ \E k \in DOMAIN assets :
         /\ tasks[AssetTask(k)].pc = "idle"
         /\ variant = Main1 =>
              \E i \in DOMAIN StructFields :
                 /\ StructFields[i] = k
                 /\ \A h \in 1..(i - 1) : tasks[AssetTask(StructFields[h])].pc # "idle"
         /\ tasks' = [tasks EXCEPT ![AssetTask(k)] =
                        Started(GetAssetPath(j, assets[k]), GetAssetKey(j, assets[k]))]
    /\ UNCHANGED <<j, assets, objects, pc, ok, err, head, probed, version, wg, uploads, cwdOK, variant, prior, peer, ret>>

\* `go uploadToS3(j.Bucket, j.Manifest, j.GetAssetKey("asset-manifest.json"), ...)`
PublishLaunchManifest ==
    /\ pc = "assets"
    /\ AssetTasks \subseteq Launched
    /\ tasks' = [tasks EXCEPT !["manifest"] =
                   Started(j.Manifest, GetAssetKey(j, "asset-manifest.json"))]
    /\ pc' = "journey"
    /\ UNCHANGED <<j, assets, objects, ok, err, head, probed, version, wg, uploads, cwdOK, variant, prior, peer, ret>>

\* `go uploadToS3(j.Bucket, j.JourneyPath, j.GetAssetKey("journey.json"), ...)`
PublishLaunchJourney ==
    /\ pc = "journey"
    /\ tasks' = [tasks EXCEPT !["journey"] =
                   Started(j.JourneyPath, GetAssetKey(j, "journey.json"))]
    /\ pc' = (IF variant \in WithUrls THEN "urls" ELSE "wait")
    /\ UNCHANGED <<j, assets, objects, ok, err, head, probed, version, wg, uploads, cwdOK, variant, prior, peer, ret>>

\* `go PublishJourneyPublicUrls(version, j, uploader, &wg)`
PublishLaunchUrls ==
    /\ pc = "urls"
    /\ tasks' = [tasks EXCEPT !["urls"] =
                   [Started("", GetJourneyURLPath(j)) EXCEPT !.pc = "marshal"]]
    /\ pc' = "wait"
    /\ UNCHANGED <<j, assets, objects, ok, err, head, probed, version, wg, uploads, cwdOK, variant, prior, peer, ret>>

\* `session.NewSession(...)` at the head of Publish, in the variants that
\* make the session themselves
PublishSession ==
    /\ pc = "session"
    /\ \/ pc' = "returned" /\ ret' = "SessionError"
       \/ pc' = (IF variant = Main1 THEN "loadAssets" ELSE "validate") /\ ret' = ret
    /\ UNCHANGED <<j, assets, objects, ok, err, head, probed, version, wg, tasks,
                   uploads, cwdOK, variant, prior, peer>>

\* `if err := loadAssetManifestConfig(j.Manifest); err != nil { return err }`
\* inside the Publish of package main
PublishLoadAssets ==
    /\ pc = "loadAssets"
    /\ \/ pc' = "returned" /\ ret' = "ConfigLoadError"
       \/ pc' = "add" /\ ret' = ret
    /\ UNCHANGED <<j, assets, objects, ok, err, head, probed, version, wg, tasks,
                   uploads, cwdOK, variant, prior, peer>>

\* Publish returning without the wait
PublishWait_NoWait ==
    /\ pc = "wait"
    /\ pc' = "returned"
    /\ ret' = "nil"
    /\ UNCHANGED <<j, assets, objects, ok, err, head, probed, version, wg, tasks, uploads, cwdOK, variant, prior, peer>>

\* `wg.Wait(); return nil`
PublishWait ==
    /\ pc = "wait"
    /\ wg = 0
    /\ pc' = "returned"
    /\ ret' = "nil"
    /\ UNCHANGED <<j, assets, objects, ok, err, head, probed, version, wg, tasks, uploads, cwdOK, variant, prior, peer>>

----------------------------------------------------------------------------
(* uploadToS3 and PublishJourneyPublicUrls *)

\* the test with the comparison off by one
NoPath_Never(path) == Len(path) < 0

\* `len(path) <= 0`
NoPath(path) == Len(path) <= 0

\* the UploadInput of a file task; package main sets no ContentType
FileInput(t) ==
    [task |-> t, Bucket |-> j.Bucket, Key |-> tasks[t].key,
     ContentType |-> IF variant \in WithUrls
                     THEN getContentType(Abs(tasks[t].path)) ELSE ""]

\* the UploadInput of PublishJourneyPublicUrls, and of Urls.Publish before it
UrlsInput ==
    [task |-> "urls", Bucket |-> j.Bucket, Key |-> GetJourneyURLPath(j),
     ContentType |-> IF variant = Journey1
                     THEN "application/javascript" ELSE "application/json"]

\* the path is the build directory itself (an empty path in the manifest):
\* os.Open succeeds on it and reading it fails
IsDir(path) == path = j.Build

\* the outcomes that are an error returned by the task
Failures == {"AbsError", "OpenError", "UploadError"}

Failed == { t \in TaskIds : tasks[t].outcome \in Failures }

\* a return that leaves the file open
Return_NoClose(t, outcome) ==
    /\ tasks' = [tasks EXCEPT ![t] = [@ EXCEPT !.pc = "done", !.outcome = outcome]]
    /\ wg' = wg - 1

\* a task returning with `outcome`: its deferred f.Close() and wg.Done() run
Return(t, outcome) ==
    /\ tasks' = [tasks EXCEPT ![t] =
                   [@ EXCEPT !.pc = "done", !.outcome = outcome, !.fopen = FALSE]]
    /\ wg' = wg - 1

\* uploadToS3 up to its Upload call, all of it local to the goroutine:
\* `if len(path) <= 0 { return nil, nil }`, `filepath.Abs(path)` (which fails
\* when the path is relative and the working directory cannot be read),
\* `os.Open(abs)` and `defer f.Close()`
UploadOpen(t) ==
    /\ t # "urls"
    /\ tasks[t].pc = "start"
    /\ IF NoPath(tasks[t].path)
       THEN Return(t, "skipped")
       ELSE IF ~IsAbs(tasks[t].path) /\ ~cwdOK
       THEN Return(t, "AbsError")
       ELSE \/ Return(t, "OpenError")
            \/ /\ tasks' = [tasks EXCEPT ![t] = [@ EXCEPT !.pc = "upload", !.fopen = TRUE]]
               /\ wg' = wg
    /\ UNCHANGED <<j, assets, objects, pc, ok, err, head, probed, version, uploads, cwdOK, variant, prior, peer, ret>>

\* an upload that is given up once a sibling has failed
UploadPut_Cancelled(t) ==
    /\ tasks[t].pc = "upload"
    /\ Failed = {}
    /\ uploads' = uploads \cup {FileInput(t)}
    /\ \/ /\ ~IsDir(tasks[t].path)
          /\ objects' = (tasks[t].key :>
                           FileObject(FileInput(t).ContentType, Abs(tasks[t].path)))
                        @@ objects
          /\ Return(t, "ok")
       \/ /\ objects' = objects
          /\ Return(t, "UploadError")
    /\ UNCHANGED <<j, assets, pc, ok, err, head, probed, version, cwdOK, variant, prior, peer, ret>>

\* `return uploader.Upload(&s3manager.UploadInput{...})` of uploadToS3
UploadPut(t) ==
    /\ tasks[t].pc = "upload"
    /\ uploads' = uploads \cup {FileInput(t)}
    /\ \/ /\ ~IsDir(tasks[t].path)
          /\ objects' = (tasks[t].key :>
                           FileObject(FileInput(t).ContentType, Abs(tasks[t].path)))
                        @@ objects
          /\ Return(t, "ok")
       \/ /\ objects' = objects
          /\ Return(t, "UploadError")
    /\ UNCHANGED <<j, assets, pc, ok, err, head, probed, version, cwdOK, variant, prior, peer, ret>>

\* PublishJourneyPublicUrls: json.Marshal(version), then uploader.Upload
UrlsPut ==
    /\ variant \in WithUrls
    /\ tasks["urls"].pc = "marshal"
    /\ uploads' = uploads \cup {UrlsInput}
    /\ \/ /\ objects' = (UrlsInput.Key :> DataObject(UrlsInput.ContentType, version))
                        @@ objects
          /\ Return("urls", "ok")
       \/ /\ objects' = objects
          /\ Return("urls", "UploadError")
    /\ UNCHANGED <<j, assets, pc, ok, err, head, probed, version, cwdOK, variant, prior, peer, ret>>

\* the next step of upload goroutine t
TaskStep(t) ==
    \/ UploadOpen(t)
    \/ UploadPut(t)
    \/ t = "urls" /\ UrlsPut

\* the `go` statements of Publish
PublishLaunch ==
    \/ PublishLaunchAsset
    \/ PublishLaunchManifest
    \/ PublishLaunchJourney
    \/ PublishLaunchUrls

----------------------------------------------------------------------------
(* main *)

\* `if err := loadConfig(*journeyPath, &j); err != nil { log.Panic(err) }`
MainLoadJourney ==
    /\ pc = "loadJourney"
    /\ \/ pc' = "panicked" /\ ret' = "ConfigLoadError"
       \/ pc' = "validateConfig" /\ ret' = ret
    /\ UNCHANGED <<j, assets, objects, ok, err, head, probed, version, wg, tasks,
                   uploads, cwdOK, variant, prior, peer>>

\* `if err := j.Validate(validator.New()); err != nil { log.Panic(err) }`,
\* then the publish command
MainValidate ==
    /\ pc = "validateConfig"
    /\ IF (IF variant \in WithUrls THEN Validate(j) ELSE ValidateMain(j))
       THEN pc' = (IF variant \in WithUrls THEN "loadManifest" ELSE "session")
            /\ ret' = ret
       ELSE pc' = "panicked" /\ ret' = "ValidationError"
    /\ UNCHANGED <<j, assets, objects, ok, err, head, probed, version, wg, tasks,
                   uploads, cwdOK, variant, prior, peer>>

\* `if err := loadConfig(j.Manifest, &assets); err != nil { log.Panic(err) }`,
\* then `j.Publish(assets, ...)`
MainLoadManifest ==
    /\ pc = "loadManifest"
    /\ \/ pc' = "panicked" /\ ret' = "ConfigLoadError"
       \/ pc' = (IF variant = Journey1 THEN "session" ELSE "validate") /\ ret' = ret
    /\ UNCHANGED <<j, assets, objects, ok, err, head, probed, version, wg, tasks,
                   uploads, cwdOK, variant, prior, peer>>

----------------------------------------------------------------------------
(* Specification *)

Next ==
    \/ PublishValidate
    \/ PublishCheck
    \/ PublishBuild
    \/ PublishAdd
    \/ PublishLaunchAsset
    \/ PublishLaunchManifest
    \/ PublishLaunchJourney
    \/ PublishLaunchUrls
    \/ PublishWait
    \/ \E t \in TaskIds : UploadOpen(t)
    \/ \E t \in TaskIds : UploadPut(t)
    \/ UrlsPut

Spec == Init /\ [][Next]_vars

\* every goroutine the Go scheduler can run is run, and every storage call
\* returns
FairSpec == Spec /\ WF_vars(Next)

----------------------------------------------------------------------------
(* BuildJourneyPublicUrls on its own *)

\* the largest asset manifest BuildJourneyPublicUrls is run on
MaxBuildAssets == 3

BuildPool ==
    ManifestPool \cup
    { ("main.js" :> "static/js/main.js") @@ ("chunk.js" :> "static/js/2.chunk.js"),
      ("main.css" :> "static/css/main.css") @@ ("main.css.map" :> "static/css/main.css.map")
          @@ ("theme.css" :> "static/css/theme.css"),
      ("main.js" :> "static/js/main.js") @@ ("chunk.js" :> "static/js/2.chunk.js")
          @@ ("main.css" :> "static/css/main.css") @@ ("logo" :> "static.v2/logo") }

BuildJourneys ==
    { [jj EXCEPT !.CDNDomain = d, !.RootID = r] :
        jj \in Journeys, d \in {"https://cdn.example.com/", "https://d1.cloudfront.net"},
        r \in {"app-root", "root"} }

InitBuild ==
    /\ variant = Newest
    /\ j \in BuildJourneys
    /\ assets \in { m \in BuildPool : Cardinality(DOMAIN m) <= MaxBuildAssets }
    /\ objects = <<>>
    /\ pc = "build"
    /\ ok = TRUE
    /\ err = "NotFound"
    /\ head = "NotFound"
    /\ probed = {SentinelKey(j)}
    /\ version = NoVersion
    /\ wg = 0
    /\ tasks = [t \in TaskIds |-> Idle]
    /\ uploads = {}
    /\ cwdOK = TRUE
    /\ prior = NoPrior
    /\ peer = NoPeer
    /\ ret = "none"

SpecBuild == InitBuild /\ [][PublishBuild]_vars

\* BuildJourneyPublicUrls called once more on the same descriptor and manifest;
\* the range loop may visit the map in another order
BuildAgain ==
    /\ pc = "add"
    /\ \E order \in Orders(assets) : version' = BuildJourneyPublicUrls(j, assets, order)
    /\ UNCHANGED <<j, assets, objects, pc, ok, err, head, probed, wg, tasks, uploads,
                   cwdOK, variant, prior, peer, ret>>

NextBuildTwice ==
    \/ PublishBuild
    \/ BuildAgain

SpecBuildTwice == InitBuild /\ [][NextBuildTwice]_vars

----------------------------------------------------------------------------
(* Every variant, from the start of main *)

\* asset manifests as src/main.go loads them: the four fields, and a
\* manifest that names the script only (the other fields stay empty)
StructManifests ==
    { ("main.css" :> "/main.abc123.css") @@ ("main.css.map" :> "/main.abc123.css.map")
          @@ ("main.js" :> "/main.abc123.js") @@ ("main.js.map" :> "/main.abc123.js.map"),
      ("main.css" :> "") @@ ("main.css.map" :> "")
          @@ ("main.js" :> "/main.abc123.js") @@ ("main.js.map" :> "") }

InitVariants ==
    /\ variant \in Variants
    /\ j \in Journeys
    /\ assets \in (IF variant = Main1 THEN StructManifests ELSE Manifests)
    /\ objects \in Buckets(j)
    /\ pc = "loadJourney"
    /\ ok = FALSE
    /\ err = "nil"
    /\ head = "none"
    /\ probed = {}
    /\ version = NoVersion
    /\ wg = 0
    /\ tasks = [t \in TaskIds |-> Idle]
    /\ uploads = {}
    /\ cwdOK = TRUE
    /\ prior = NoPrior
    /\ peer = NoPeer
    /\ ret = "none"

NextVariants ==
    \/ MainLoadJourney
    \/ MainValidate
    \/ MainLoadManifest
    \/ PublishSession
    \/ PublishValidate
    \/ PublishCheck
    \/ PublishLoadAssets
    \/ PublishBuild
    \/ PublishAdd
    \/ PublishLaunchAsset
    \/ PublishLaunchManifest
    \/ PublishLaunchJourney
    \/ PublishLaunchUrls
    \/ PublishWait
    \/ \E t \in TaskIds : UploadOpen(t)
    \/ \E t \in TaskIds : UploadPut(t)
    \/ UrlsPut

SpecVariants == InitVariants /\ [][NextVariants]_vars

----------------------------------------------------------------------------
(* The program run a second time on the same descriptor *)

\* the keys the tasks of this run wrote to the bucket
Wrote == { tasks[t].key : t \in { u \in TaskIds : tasks[u].outcome = "ok" } }

\* the program is started again after Publish returned: a new process, the
\* same files, the bucket as the first run left it
PublishAgain ==
    /\ pc = "returned"
    /\ ~prior.ran
    /\ prior' = [ran |-> TRUE, wrote |-> Wrote, failed |-> Failed]
    /\ pc' = "validate"
    /\ ok' = FALSE
    /\ err' = "nil"
    /\ head' = "none"
    /\ probed' = {}
    /\ version' = NoVersion
    /\ wg' = 0
    /\ tasks' = [t \in TaskIds |-> Idle]
    /\ uploads' = {}
    /\ ret' = "none"
    /\ UNCHANGED <<j, assets, objects, cwdOK, variant, peer>>

InitRerun ==
    /\ variant = Newest
    /\ j = Demo
    /\ assets = ("main.js" :> "/main.abc123.js")
    /\ objects = <<>>
    /\ pc = "validate"
    /\ ok = FALSE
    /\ err = "nil"
    /\ head = "none"
    /\ probed = {}
    /\ version = NoVersion
    /\ wg = 0
    /\ tasks = [t \in TaskIds |-> Idle]
    /\ uploads = {}
    /\ cwdOK = TRUE
    /\ prior = NoPrior
    /\ peer = NoPeer
    /\ ret = "none"

NextRerun ==
    \/ PublishValidate
    \/ PublishCheck
    \/ PublishBuild
    \/ PublishAdd
    \/ PublishLaunchAsset
    \/ PublishLaunchManifest
    \/ PublishLaunchJourney
    \/ PublishLaunchUrls
    \/ PublishWait
    \/ \E t \in TaskIds : UploadOpen(t)
    \/ \E t \in TaskIds : UploadPut(t)
    \/ UrlsPut
    \/ PublishAgain

SpecRerun == InitRerun /\ [][NextRerun]_vars

----------------------------------------------------------------------------
(* Two runs at once on the same descriptor *)

\* The second run is the same Publish on the same files; its steps are taken
\* whole: the guard with the test of its result, and each goroutine from its
\* start to its return.

\* the path and the key Publish gives the goroutine t
TaskPath(t) ==
    CASE t = "manifest" -> j.Manifest
      [] t = "journey"  -> j.JourneyPath
      [] t = "urls"     -> ""
      [] OTHER -> GetAssetPath(j, assets[CHOOSE k \in DOMAIN assets : AssetTask(k) = t])

TaskKey(t) ==
    CASE t = "manifest" -> GetAssetKey(j, "asset-manifest.json")
      [] t = "journey"  -> GetAssetKey(j, "journey.json")
      [] t = "urls"     -> GetJourneyURLPath(j)
      [] OTHER -> GetAssetKey(j, assets[CHOOSE k \in DOMAIN assets : AssetTask(k) = t])

\* the object goroutine t stores
TaskObject(t) ==
    IF t = "urls"
    THEN DataObject("application/json",
                    BuildJourneyPublicUrls(j, assets, CHOOSE o \in Orders(assets) : TRUE))
    ELSE FileObject(getContentType(Abs(TaskPath(t))), Abs(TaskPath(t)))

\* the second run's `if ok, err := j.ValidateVersionNotUsed(sess); !ok`
PeerValidate ==
    /\ peer.pc = "validate"
    /\ \E r \in ValidateVersionNotUsed(j, objects) :
         peer' = [peer EXCEPT !.ok = r.ok,
                              !.pc = IF r.ok THEN "upload" ELSE "returned"]
    /\ UNCHANGED <<j, assets, objects, pc, ok, err, head, probed, version, wg, tasks,
                   uploads, cwdOK, variant, prior, ret>>

\* one goroutine of the second run, from start to return
PeerUpload(t) ==
    /\ peer.pc = "upload"
    /\ t \notin peer.done
    /\ \/ /\ t = "urls" \/ (~NoPath(TaskPath(t)) /\ ~IsDir(TaskPath(t)))
          /\ objects' = (TaskKey(t) :> TaskObject(t)) @@ objects
          /\ peer' = [peer EXCEPT !.done = @ \cup {t}, !.wrote = @ \cup {TaskKey(t)}]
       \/ /\ objects' = objects
          /\ peer' = [peer EXCEPT !.done = @ \cup {t}]
    /\ UNCHANGED <<j, assets, pc, ok, err, head, probed, version, wg, tasks, uploads,
                   cwdOK, variant, prior, ret>>

\* the second run's `wg.Wait(); return nil`
PeerWait ==
    /\ peer.pc = "upload"
    /\ peer.done = TaskIds
    /\ peer' = [peer EXCEPT !.pc = "returned"]
    /\ UNCHANGED <<j, assets, objects, pc, ok, err, head, probed, version, wg, tasks,
                   uploads, cwdOK, variant, prior, ret>>

InitTwoRuns ==
    /\ variant = Newest
    /\ j = Demo
    /\ assets = ("main.js" :> "/main.abc123.js")
    /\ objects = <<>>
    /\ pc = "validate"
    /\ ok = FALSE
    /\ err = "nil"
    /\ head = "none"
    /\ probed = {}
    /\ version = NoVersion
    /\ wg = 0
    /\ tasks = [t \in TaskIds |-> Idle]
    /\ uploads = {}
    /\ cwdOK = TRUE
    /\ prior = NoPrior
    /\ peer = [NoPeer EXCEPT !.pc = "validate"]
    /\ ret = "none"

NextTwoRuns ==
    \/ PublishValidate
    \/ PublishCheck
    \/ PublishBuild
    \/ PublishAdd
    \/ PublishLaunchAsset
    \/ PublishLaunchManifest
    \/ PublishLaunchJourney
    \/ PublishLaunchUrls
    \/ PublishWait
    \/ \E t \in TaskIds : UploadOpen(t)
    \/ \E t \in TaskIds : UploadPut(t)
    \/ UrlsPut
    \/ PeerValidate
    \/ \E t \in TaskIds : PeerUpload(t)
    \/ PeerWait

SpecTwoRuns == InitTwoRuns /\ [][NextTwoRuns]_vars

----------------------------------------------------------------------------
(* Asset manifests whose paths meet *)

\* two logical names with one path, and paths that are the file names of
\* the fixed uploads
MeetingManifests ==
    { ("main.js" :> "/main.abc123.js") @@ ("app.js" :> "/main.abc123.js"),
      ("main.js" :> "/main.abc123.js") @@ ("journey" :> "journey.json"),
      ("manifest" :> "asset-manifest.json"),
      ("urls" :> "journey-urls.json") }

InitMeeting ==
    /\ variant = Newest
    /\ j = Demo
    /\ assets \in MeetingManifests
    /\ objects = <<>>
    /\ pc = "validate"
    /\ ok = FALSE
    /\ err = "nil"
    /\ head = "none"
    /\ probed = {}
    /\ version = NoVersion
    /\ wg = 0
    /\ tasks = [t \in TaskIds |-> Idle]
    /\ uploads = {}
    /\ cwdOK = TRUE
    /\ prior = NoPrior
    /\ peer = NoPeer
    /\ ret = "none"

SpecMeeting == InitMeeting /\ [][Next]_vars

----------------------------------------------------------------------------
(* Properties *)

FileTasks == TaskIds \ {"urls"}

\* the keys of the bucket under the prefix of descriptor jj
KeysUnder(jj) ==
    LET prefix == jj.Name \o "/" \o jj.Version \o "/"
    IN  { k \in DOMAIN objects :
            Len(k) >= Len(prefix) /\ SubSeq(k, 1, Len(prefix)) = prefix }

\* C1: for a version other than "latest", the guard probes
\* "{name}/{version}/journey.json"; when HeadObject reports the object
\* present the guard fails (ok = false) with the version-conflict error, and
\* when it reports not-found the guard succeeds (ok = true).
C1_GuardFollowsProbe ==
    (pc \in {"checked", "returned"} /\ j.Version # "latest") =>
        /\ probed = { j.Name \o "/" \o j.Version \o "/journey.json" }
        /\ head = "present" => (~ok /\ err = "VersionConflict")
        /\ head = "NotFound" => ok

C1_Witness ==
    /\ pc = "checked"
    /\ j.Version = "1.0.0"
    /\ head = "present"
    /\ ~ok
    /\ err = "VersionConflict"

\* C2: for version "latest" the guard reports failure (ok = false, the
\* reserved-version error) and HeadObject is not called.
C2_ReservedVersionFails ==
    (pc \in {"checked", "returned"} /\ j.Version = "latest") =>
        /\ ~ok
        /\ err = "ReservedVersion"
        /\ probed = {}

\* C3: whenever the guard comes back with a version conflict, the reserved
\* version or a probe error, the next step of Publish is to return that error,
\* no upload task is started and the bucket is left as it was; a publish of
\* version "latest" never writes under "{name}/latest/".
C3_GuardFailureStopsPublish ==
    /\ [][(pc = "checked" /\ err \in {"VersionConflict", "ReservedVersion", "RequestFailure"})
            => (pc' = "returned" /\ ret' # "nil" /\ tasks' = tasks /\ objects' = objects)]_vars
    /\ [](j.Version = "latest" => (Launched = {} /\ KeysUnder(j) = {}))

\* C4: when HeadObject fails for a reason other than not-found, the guard
\* fails (ok = false) and Publish returns the error instead of going on to
\* the uploads.
C4_ProbeErrorIsFatal ==
    [][(pc = "checked" /\ head = "RequestFailure")
         => (~ok /\ pc' = "returned" /\ ret' # "nil")]_vars

\* C5: Publish has returned only when every upload task it started (every
\* asset task, asset-manifest.json, journey.json, journey-urls.json) has
\* completed, whatever its outcome; a publish that passed the guard started
\* them all.
C5_Barrier ==
    pc = "returned" =>
        /\ \A t \in Launched : tasks[t].pc = "done" /\ tasks[t].outcome # "none"
        /\ ret = "nil" => Launched = TaskIds

C5_Witness ==
    /\ pc = "returned"
    /\ Cardinality(TaskIds) = 5
    /\ Completed = TaskIds
    /\ Failed # {}
    /\ \E t \in TaskIds : tasks[t].outcome = "ok"

\* C6: when one or more upload tasks failed, Publish returns an error; it
\* returns nil only if every task succeeded or was skipped.
C6_FailuresAggregated ==
    pc = "returned" =>
        (ret = "nil" => \A t \in TaskIds : tasks[t].outcome \in {"ok", "skipped"})

\* C7: once any upload task has failed, no other task of the run is held
\* back: each one has completed, or can take its own next step whatever the
\* other tasks did, or is still to be started by a `go` statement Publish is
\* free to execute. Every step moves one task or Publish forward, so each
\* task reaches its completion under every schedule.
C7_NoSiblingCancellation ==
    Failed # {} =>
        \A t \in TaskIds :
            \/ tasks[t].pc = "done"
            \/ tasks[t].pc = "idle" /\ ENABLED PublishLaunch
            \/ tasks[t].pc \notin {"idle", "done"} /\ ENABLED TaskStep(t)

C7_Witness ==
    /\ tasks["manifest"].outcome = "OpenError"
    /\ tasks["manifest"].pc = "done"
    /\ tasks["journey"].outcome = "ok"
    /\ tasks["urls"].outcome = "ok"
    /\ Completed = TaskIds

\* C8: a file task with an empty source path ends as skipped: it opens no
\* file and hands nothing to the uploader, and it has completed when Publish
\* returns.
C8_EmptyPathSkipped ==
    \A t \in FileTasks :
        (tasks[t].pc # "idle" /\ tasks[t].path = "") =>
            /\ tasks[t].pc \in {"start", "done"}
            /\ tasks[t].pc = "done" => tasks[t].outcome = "skipped"
            /\ ~tasks[t].fopen
            /\ \A u \in uploads : u.task # t
            /\ pc = "returned" => tasks[t].pc = "done"

C8_Witness ==
    /\ pc = "returned"
    /\ tasks["manifest"].path = ""
    /\ tasks["manifest"].pc = "done"
    /\ tasks["manifest"].outcome = "skipped"
    /\ tasks["manifest"].key \notin DOMAIN objects
    /\ tasks["journey"].outcome = "ok"

\* C9: for a valid descriptor whose probe answered not-found, when no file
\* fails to open and no upload fails, Publish returns nil after N+3 uploads,
\* one per asset and one each to asset-manifest.json, journey.json and
\* journey-urls.json under "{name}/{version}/".
C9_EndToEnd ==
    (/\ pc = "returned"
     /\ Validate(j)
     /\ head = "NotFound"
     /\ Failed = {}) =>
        /\ ret = "nil"
        /\ Cardinality(uploads) = Cardinality(DOMAIN assets) + 3
        /\ \A t \in TaskIds : tasks[t].outcome = "ok"
        /\ { u.Key : u \in uploads } =
             { j.Name \o "/" \o j.Version \o "/" \o assets[k] : k \in DOMAIN assets }
             \cup { j.Name \o "/" \o j.Version \o "/" \o f :
                      f \in {"asset-manifest.json", "journey.json", "journey-urls.json"} }
        /\ \A u \in uploads : u.Key \in DOMAIN objects

C9_Witness ==
    /\ pc = "returned"
    /\ ret = "nil"
    /\ Validate(j)
    /\ head = "NotFound"
    /\ Cardinality(DOMAIN assets) = 2
    /\ Cardinality(uploads) = 5
    /\ Cardinality(KeysUnder(j)) = 5
    /\ \A t \in TaskIds : tasks[t].outcome = "ok"

\* the manifest and the descriptor of the worked example
ExampleAssets ==
    ("main.js" :> "/main.abc123.js") @@ ("main.css" :> "/main.abc123.css")
        @@ ("favicon.ico" :> "/favicon.ico")

ExampleBuilt == pc = "add" /\ j = Demo /\ assets = ExampleAssets

\* C10 as stated: the URLs of the worked example have a single slash between
\* the version and the file name.
C10_ExampleUrls ==
    ExampleBuilt =>
        /\ version.Js = << [Url |-> "https://cdn.example.com/demo/1.0.0/main.abc123.js",
                            RootID |-> "app-root"] >>
        /\ version.Css = << [Url |-> "https://cdn.example.com/demo/1.0.0/main.abc123.css"] >>

\* C10, amended: every URL of the built manifest is cdnDomain followed by
\* "{name}/{version}/" followed by the relative path of a manifest entry as
\* written; in the worked example, whose paths begin with a slash, the one JS
\* entry is "https://cdn.example.com/demo/1.0.0//main.abc123.js" with rootID
\* "app-root", the one CSS entry is
\* "https://cdn.example.com/demo/1.0.0//main.abc123.css", and favicon.ico has
\* no entry.
C10_PublicUrls ==
    pc = "add" =>
        /\ \A i \in DOMAIN version.Js : \E k \in DOMAIN assets :
             version.Js[i].Url = j.CDNDomain \o j.Name \o "/" \o j.Version \o "/" \o assets[k]
        /\ \A i \in DOMAIN version.Css : \E k \in DOMAIN assets :
             version.Css[i].Url = j.CDNDomain \o j.Name \o "/" \o j.Version \o "/" \o assets[k]
        /\ ExampleBuilt =>
             /\ version.Js = << [Url |-> "https://cdn.example.com/demo/1.0.0//main.abc123.js",
                                 RootID |-> "app-root"] >>
             /\ version.Css =
                  << [Url |-> "https://cdn.example.com/demo/1.0.0//main.abc123.css"] >>

C10_Witness ==
    /\ ExampleBuilt
    /\ Len(version.Js) = 1
    /\ Len(version.Css) = 1
    /\ version.Js[1].Url = "https://cdn.example.com/demo/1.0.0//main.abc123.js"

----------------------------------------------------------------------------

HasSuffix(s, suffix) ==
    Len(s) >= Len(suffix) /\ SubSeq(s, Len(s) - Len(suffix) + 1, Len(s)) = suffix

\* how many entries of the sequence equal x
Count(seq, x) == Cardinality({ i \in DOMAIN seq : seq[i] = x })

\* the manifest entries whose path is p
EntriesWithPath(p) == { k \in DOMAIN assets : assets[k] = p }

\* C11: the built manifest has one CSS entry for every manifest entry whose
\* path ends in ".css", one JS entry carrying the descriptor's rootID for
\* every entry whose path ends in ".js", and no entry for a path with any
\* other extension; Build returns a manifest whatever the extensions are.
C11_ClassifiedByExtension ==
    /\ pc = "build" => ENABLED PublishBuild
    /\ pc = "add" =>
         /\ Len(version.Css) =
              Cardinality({ k \in DOMAIN assets : HasSuffix(assets[k], ".css") })
         /\ Len(version.Js) =
              Cardinality({ k \in DOMAIN assets : HasSuffix(assets[k], ".js") })
         /\ \A k \in DOMAIN assets :
              LET p == assets[k]
                  n == Cardinality(EntriesWithPath(p))
              IN  /\ Count(version.Css, [Url |-> j.CDNDomain \o GetAssetKey(j, p)]) =
                       IF HasSuffix(p, ".css") THEN n ELSE 0
                  /\ Count(version.Js, [Url |-> j.CDNDomain \o GetAssetKey(j, p),
                                        RootID |-> j.RootID]) =
                       IF HasSuffix(p, ".js") THEN n ELSE 0

\* a manifest with two style sheets and a source map has been built
C11_Witness ==
    /\ pc = "add"
    /\ "main.css.map" \in DOMAIN assets
    /\ Len(version.Css) = 2
    /\ Len(version.Js) = 0
    /\ Cardinality(DOMAIN assets) = 3

----------------------------------------------------------------------------

\* the two sequences hold the same entries the same number of times
SameEntries(s1, s2) ==
    /\ Len(s1) = Len(s2)
    /\ \A i \in DOMAIN s1 : Count(s1, s1[i]) = Count(s2, s1[i])

\* C12: a second call of Build on the same descriptor and manifest returns the
\* same CSS entries and the same JS entries as the call before it, each as a
\* multiset, whatever order either call visited the map in; no call of Build
\* changes the descriptor or the manifest.
C12_BuildDeterministic ==
    [][/\ (pc = "add" /\ pc' = "add") =>
            /\ SameEntries(version.Css, version'.Css)
            /\ SameEntries(version.Js, version'.Js)
       /\ pc' = "add" => (j' = j /\ assets' = assets)]_vars

\* two calls on a manifest of two scripts have returned them in both orders
C12_Witness ==
    /\ pc = "add"
    /\ DOMAIN assets = {"main.js", "chunk.js"}
    /\ Len(version.Js) = 2
    /\ version.Js[1].Url = j.CDNDomain \o GetAssetKey(j, assets["chunk.js"])

----------------------------------------------------------------------------

\* C13: while any upload task has been started, the guard has returned (for a
\* version other than "latest" its HeadObject has answered) and the URL
\* manifest is the one Build returned; nothing is written before a task is
\* started; and a started task that has not returned can always take its next
\* step, whatever its siblings have or have not done.
C13_Ordering ==
    /\ Launched # {} =>
         /\ pc \in {"assets", "journey", "urls", "wait", "returned"}
         /\ j.Version # "latest" => (probed = {SentinelKey(j)} /\ head # "none")
         /\ \E o \in Orders(assets) : version = BuildJourneyPublicUrls(j, assets, o)
    /\ \A u \in uploads : \E t \in Launched : tasks[t].key = u.Key
    /\ \A t \in Launched \ Completed : ENABLED TaskStep(t)

\* the task started last has returned while the asset manifest, started
\* before it, has not begun, and an asset started first is in its Upload call
C13_Witness ==
    /\ tasks["urls"].pc = "done"
    /\ tasks["manifest"].pc = "start"
    /\ \E t \in AssetTasks : tasks[t].pc = "upload"
    /\ version.Js # <<>>

----------------------------------------------------------------------------

\* C14: in a run that follows a run of the same name and version which wrote
\* at least one object and in which at least one task failed, the guard
\* fails, no task is started and no Upload is issued.
C14_RerunFailsGuard ==
    (prior.ran /\ prior.wrote # {} /\ prior.failed # {}) =>
        /\ Launched = {}
        /\ uploads = {}
        /\ pc \notin {"validate"} => ~ok
        /\ pc = "returned" => ret = "VersionConflict"

----------------------------------------------------------------------------

\* C15: when a run has ended with a configuration load error or a validation
\* error, no HeadObject has been issued, no task has been started and no
\* Upload has been issued.
C15_ConfigErrorsBeforeNetwork ==
    ret \in {"ConfigLoadError", "ValidationError"} =>
        /\ probed = {}
        /\ Launched = {}
        /\ uploads = {}

----------------------------------------------------------------------------

HasPrefix(s, prefix) == Len(s) >= Len(prefix) /\ SubSeq(s, 1, Len(prefix)) = prefix

\* the keys a run may write: one per manifest entry and the three fixed ones
LayoutKeys ==
    { j.Name \o "/" \o j.Version \o "/" \o assets[k] : k \in DOMAIN assets }
        \cup { j.Name \o "/" \o j.Version \o "/" \o f :
                 f \in {"asset-manifest.json", "journey.json", "journey-urls.json"} }

\* C16: every Upload is to the configured bucket and to a key under
\* "{name}/{version}/"; the keys of the tasks Publish starts are the asset
\* keys, asset-manifest.json, journey.json and journey-urls.json and no
\* other; the Upload of journey-urls.json has content type application/json.
C16_PublishedLayout ==
    /\ \A u \in uploads :
         /\ u.Bucket = j.Bucket
         /\ HasPrefix(u.Key, j.Name \o "/" \o j.Version \o "/")
         /\ u.Key \in LayoutKeys
         /\ u.Key = j.Name \o "/" \o j.Version \o "/journey-urls.json" =>
              u.ContentType = "application/json"
    /\ (variant \in WithUrls /\ pc \in {"wait", "returned"} /\ Launched # {}) =>
         { tasks[t].key : t \in TaskIds } = LayoutKeys

----------------------------------------------------------------------------

\* the tasks that hold an open file
OpenHandles == { t \in TaskIds : tasks[t].fopen }

\* C17: a task holds an open file only between its os.Open and its return;
\* a task that has returned, by whichever path, holds none, and once Publish
\* is past the wait no file is open.
C17_HandlesClosed ==
    /\ \A t \in OpenHandles : t \in FileTasks /\ tasks[t].pc = "upload"
    /\ \A t \in Completed : ~tasks[t].fopen
    /\ pc = "returned" => OpenHandles = {}

\* Publish is past the wait after one task's Upload failed on an open file,
\* another's succeeded, and a third never opened its file
C17_Witness ==
    /\ pc = "returned"
    /\ ret = "nil"
    /\ OpenHandles = {}
    /\ \E t1, t2, t3 \in FileTasks :
         /\ tasks[t1].outcome = "UploadError"
         /\ tasks[t2].outcome = "ok"
         /\ tasks[t3].outcome = "OpenError"

----------------------------------------------------------------------------

\* C18: in every variant the WaitGroup counter is never negative; from
\* wg.Add to the return of Publish it equals the number of goroutines Publish
\* starts less the number that have returned, so the count added is the
\* number started and each task takes one off; a task that has returned
\* takes no further step; Publish is at wg.Wait() only with every goroutine
\* started, and in every state that is not the end of the run some step can
\* be taken, so the wait is passed for every manifest size.
C18_WaitGroup ==
    /\ [](wg >= 0)
    /\ [](pc \in {"assets", "journey", "urls", "wait"} =>
             wg = Cardinality(TaskIds) - Cardinality(Completed))
    /\ [](pc \notin {"assets", "journey", "urls", "wait"} => wg = 0)
    /\ [](pc = "wait" => Launched = TaskIds)
    /\ []((pc = "returned" /\ ret = "nil") => Completed = TaskIds)
    /\ [](pc \in {"returned", "panicked"} \/ ENABLED NextVariants)
    /\ [][\A t \in TaskIds : tasks[t].pc = "done" => tasks'[t] = tasks[t]]_vars
    /\ [][wg' < wg => (wg' = wg - 1 /\ Cardinality(Completed') = Cardinality(Completed) + 1)]_vars

\* the second variant has returned from Publish on an empty manifest, its
\* two goroutines done
C18_Witness ==
    /\ variant = Main2
    /\ assets = <<>>
    /\ pc = "returned"
    /\ ret = "nil"
    /\ wg = 0
    /\ Cardinality(Completed) = 2

----------------------------------------------------------------------------

\* C19: of two runs of Publish on the same bucket, name and version that
\* overlap in time, at most one passes the guard, and no key is written by
\* both.
C19_OneRunPublishes ==
    /\ ~(pc # "validate" /\ ok /\ peer.ok)
    /\ Wrote \cap peer.wrote = {}

----------------------------------------------------------------------------

\* the URLs of a built manifest
UrlsOf(v) ==
    { v.Css[i].Url : i \in DOMAIN v.Css } \cup { v.Js[i].Url : i \in DOMAIN v.Js }

\* C20: every URL in the journey-urls.json this run uploaded is cdnDomain
\* followed by the key of an asset upload task started in this run, and the
\* uploaded document is the manifest built in this run from the same
\* descriptor and asset manifest.
C20_UrlsMatchUploads ==
    tasks["urls"].outcome = "ok" =>
        /\ GetJourneyURLPath(j) \in DOMAIN objects
        /\ objects[GetJourneyURLPath(j)].Data = version
        /\ \A u \in UrlsOf(objects[GetJourneyURLPath(j)].Data) :
             \E t \in AssetTasks \cap Launched : u = j.CDNDomain \o tasks[t].key

\* journey-urls.json is uploaded with one script and one style sheet, and
\* the script itself is uploaded under the key its URL ends in
C20_Witness ==
    /\ tasks["urls"].outcome = "ok"
    /\ Len(objects[GetJourneyURLPath(j)].Data.Js) = 1
    /\ Len(objects[GetJourneyURLPath(j)].Data.Css) = 1
    /\ tasks[AssetTask("main.js")].outcome = "ok"
    /\ objects[GetJourneyURLPath(j)].Data.Js[1].Url =
         j.CDNDomain \o tasks[AssetTask("main.js")].key

----------------------------------------------------------------------------

\* the tasks between their start and their return
Running == Launched \ Completed

\* the object task t stores when its Upload succeeds
Stored(t) ==
    IF t = "urls" THEN DataObject(UrlsInput.ContentType, version)
    ELSE FileObject(FileInput(t).ContentType, Abs(tasks[t].path))

\* C21: no two tasks of a run that are running at the same time have the
\* same destination key, whatever the asset manifest; so once Publish has
\* returned, every key holds what the task that uploaded to it stored.
C21_KeysUnique ==
    /\ \A t1, t2 \in Running : t1 # t2 => tasks[t1].key # tasks[t2].key
    /\ pc = "returned" =>
         \A t \in TaskIds : tasks[t].outcome = "ok" => objects[tasks[t].key] = Stored(t)

====
